---- MODULE Spec2Model ----
(***************************************************************************)
(* State-machine model of larg4's ParticleListActionService                *)
(* (src/larg4/pluginActions/ParticleListAction_service.cxx): the Geant4    *)
(* user hooks that maintain the list of particles of one event, and the    *)
(* end-of-event hand-over of that list.                                    *)
(*                                                                         *)
(* The engine (Geant4) drives the service through five callbacks:          *)
(* beginOfEventAction, preUserTrackingAction, userSteppingAction,          *)
(* postUserTrackingAction and endOfEventAction.  Each callback is one      *)
(* action, except endOfEventAction, whose two nested loops are unrolled    *)
(* into one action per loop test / loop body so that its (non-)termination *)
(* is visible as a behaviour.                                              *)
(*                                                                         *)
(* Abstractions: pdg code, mass, polarization, momenta and times are not   *)
(* modelled; a 4-position is one value of Positions; the two nested loops  *)
(* over truth-record handles and truth records are one loop over the       *)
(* flattened sequence of truth records.                                    *)
(***************************************************************************)
EXTENDS Integers, Sequences, FiniteSets, TLC

----------------------------------------------------------------------------
(* Bounds of the model.                                                    *)

\* Geant4 track ids handed out per event: 1 .. MaxTrack.
MaxTrack == 3

\* Truth records supplied to one end-of-event call: 0 .. MaxTruth.
MaxTruth == 2

\* Capacity of the output vector: the push_back that would exceed it
\* throws std::bad_alloc.
MaxPartCol == 3

\* Trajectory points the particles of one event hold together before the
\* engine stops taking steps that add one.
MaxPoints == 2

\* Events the engine begins in one run.
MaxEvents == 2

----------------------------------------------------------------------------
(* Program constants.                                                      *)

\* sim::NoParticleId, std::numeric_limits<int>::min().
NoParticleId == -2147483647 - 1

\* The null MCParticle pointer: the value of an archived entry of the
\* particle list and of an empty fCurrentParticle.particle.
NullPtr == [null |-> TRUE]

\* fCurrentParticle.particle points into the particle list; the pointer is
\* modelled by the key of the entry it points to, NoKey when it is null.
NoKey == 0

----------------------------------------------------------------------------
(* Process names.  A name is a string; Spelling gives its characters so    *)
(* that std::string::find / G4String::contains can be computed.            *)

Spelling(name) ==
    CASE name = "compt"    -> <<"c","o","m","p","t">>
      [] name = "hIoni"    -> <<"h","I","o","n","i">>
      [] name = "Decay"    -> <<"D","e","c","a","y">>
      [] name = "primary"  -> <<"p","r","i","m","a","r","y">>
      [] name = "unknown"  -> <<"u","n","k","n","o","w","n">>
      [] name = "Start"    -> <<"S","t","a","r","t">>
      [] name = "LArVoxelReadoutScoringProcess" ->
            <<"L","A","r","V","o","x","e","l","R","e","a","d","o","u","t",
              "S","c","o","r","i","n","g","P","r","o","c","e","s","s">>
      [] name = "Transportation" ->
            <<"T","r","a","n","s","p","o","r","t","a","t","i","o","n">>
      [] OTHER -> <<>>

\* s.find(sub) != std::string::npos
Contains(s, sub) ==
    \E i \in 1..(Len(s) - Len(sub) + 1) : SubSeq(s, i, i + Len(sub) - 1) = sub

\* The ten markers of the EM-shower test.
EMShowerMarkers ==
    { <<"c","o","n","v">>,
      <<"L","o","w","E","n","C","o","n","v","e","r","s","i","o","n">>,
      <<"P","a","i","r">>,
      <<"c","o","m","p","t">>,
      <<"C","o","m","p","t">>,
      <<"B","r","e","m">>,
      <<"p","h","o","t">>,
      <<"P","h","o","t","o">>,
      <<"I","o","n">>,
      <<"a","n","n","i","h","i","l">> }

IsEMShowerProcess(name) ==
    \E mk \in EMShowerMarkers : Contains(Spelling(name), mk)

\* process.contains("LArVoxel") || process.contains("OpDetReadout")
IgnoreProcess(name) ==
    \/ Contains(Spelling(name), <<"L","A","r","V","o","x","e","l">>)
    \/ Contains(Spelling(name),
                <<"O","p","D","e","t","R","e","a","d","o","u","t">>)

----------------------------------------------------------------------------
(* Inputs the engine and the framework can supply.                         *)

\* Creator processes of secondaries.
CreatorProcesses == {"compt", "Decay"}

\* Processes that define (end) a step.
StepProcesses == {"LArVoxelReadoutScoringProcess", "Transportation"}

\* Kinetic energies and energy cuts, in units of the cut.
Energies == {0, 1}

\* Positions; the filter's mustKeep is true inside KeepRegion.
Positions == {0, 1}
KeepRegion == {1}

\* Track weights the engine reports at the end of a track.
Weights == {1}

\* The kinds of track: with a G4PrimaryParticle carrying
\* g4b::PrimaryParticleInformation, with a G4PrimaryParticle without it,
\* and without a G4PrimaryParticle.
TrackKinds == {"primary", "primaryNoInfo", "secondary"}

----------------------------------------------------------------------------
VARIABLES
    \* configuration, fixed at construction
    fenergyCut,             \* EnergyCut
    fstoreTrajectories,     \* storeTrajectories
    fKeepEMShowerDaughters, \* keepEMShowerDaughters
    fFilter,                \* TRUE iff a keep-predicate is configured
    \* the service's state
    fparticleList,          \* sim::ParticleList: key -> record or NullPtr
    fArchive,               \* sim::ParticleList's archive: key -> mother
    fParentIDMap,           \* std::map<int,int>
    fCurrentParticle,       \* [particle: key or NoKey, keep: BOOLEAN]
    fCurrentTrackID,        \* static int
    fTrackIDOffset,         \* static int
    partCol,                \* *partCol_: sequence of MCParticle
    tpassn,                 \* *tpassn_: sequence of [truth, index]
    \* endOfEventAction's locals and position
    particleList,           \* the local sim::ParticleList
    nTruth,                 \* number of truth records of the event
    mct,                    \* index of the truth record being processed
    iPartPair,              \* key the iterator is at, or NoKey for end()
    nGeneratedParticles,    \* the local counter
    \* the engine
    phase,                  \* where the run is
    trackOpen,              \* a track was entered and not yet exited
    nextG4,                 \* next Geant4 track id of the event
    nEvents,                \* events begun so far
    \* history of the run, read by the properties only
    tracks,                 \* tracks entered in this event, by track id
    snap,                   \* the snapshot of the track between its
                            \* entry and its exit
    yielded,                \* the list as YieldList handed it over
    offsetBefore,           \* fTrackIDOffset before the event's YieldList
    lastK,                  \* highest key of the last non-empty yielded list
    aborted,                \* the event begun last replaced one that was
                            \* never finalized and had left something in
                            \* the list, in the parent map and in the slot
    lateConsult,            \* the keep-predicate was asked about a particle
                            \* that was already to be kept
    strayStep               \* the callback called last was a
                            \* userSteppingAction that found the slot empty

config == <<fenergyCut, fstoreTrajectories, fKeepEMShowerDaughters, fFilter>>
service == <<fparticleList, fArchive, fParentIDMap, fCurrentParticle,
             fCurrentTrackID, fTrackIDOffset, partCol, tpassn>>
locals == <<particleList, nTruth, mct, iPartPair, nGeneratedParticles>>
engine == <<phase, trackOpen, nextG4, nEvents>>
history == <<tracks, snap, yielded, offsetBefore, lastK, aborted,
             lateConsult, strayStep>>
vars == <<config, service, locals, engine, history>>

----------------------------------------------------------------------------
(* Helpers on functions used as maps.                                      *)

EmptyMap == [k \in {} |-> 0]

\* m[k] = v of std::map
MapPut(m, k, v) == [x \in (DOMAIN m) \cup {k} |-> IF x = k THEN v ELSE m[x]]

\* abs on a 32-bit int: abs(INT_MIN) is INT_MIN.
Abs(n) == IF n = NoParticleId THEN n ELSE IF n < 0 THEN -n ELSE n

SetMax(S) == CHOOSE x \in S : \A y \in S : y <= x
SetMin(S) == CHOOSE x \in S : \A y \in S : x <= y

\* The keys of a set in ascending order.
RECURSIVE SortedSeq(_)
SortedSeq(S) ==
    IF S = {} THEN <<>> ELSE <<SetMin(S)>> \o SortedSeq(S \ {SetMin(S)})

----------------------------------------------------------------------------
(* sim::ParticleList: a std::map from track id to MCParticle*, a null      *)
(* pointer marking an archived entry, with an archive of mother ids.       *)
(* Lookups take the absolute value of the key.                             *)

\* ParticleList::find(key) != end()
HasEntry(list, key) == Abs(key) \in DOMAIN list

\* ParticleList::KnownParticle(key)
KnownParticle(list, key) ==
    HasEntry(list, key) /\ list[Abs(key)] # NullPtr

\* ParticleList::GetMotherOf(key)
GetMotherOf(list, archive, key) ==
    IF ~HasEntry(list, key) THEN NoParticleId
    ELSE IF list[Abs(key)] # NullPtr THEN list[Abs(key)].mother
    ELSE archive[Abs(key)]

\* ParticleList::begin()
Begin(list) == IF DOMAIN list = {} THEN NoKey ELSE SetMin(DOMAIN list)

\* new simb::MCParticle(trackID, pdgCode, process_name, parentID, mass)
NewParticle(trackID, process_name, parentID) ==
    [trackId    |-> trackID,
     process    |-> process_name,
     mother     |-> parentID,
     trajectory |-> <<>>,
     daughters  |-> {},
     weight     |-> 0,
     endProcess |-> ""]

----------------------------------------------------------------------------
(* GetParentage: follow fParentIDMap from trackid until a key is missing.  *)

\* Parentage that follows one link only.
ParentageOneLink(map, id, parentid) ==
    IF id \in DOMAIN map THEN map[id] ELSE parentid

RECURSIVE Parentage(_, _, _)
Parentage(map, id, parentid) ==
    IF id \in DOMAIN map THEN Parentage(map, map[id], map[id]) ELSE parentid

GetParentage(map, trackid) == Parentage(map, trackid, NoParticleId)

----------------------------------------------------------------------------
Init ==
    /\ fenergyCut \in Energies
    /\ fstoreTrajectories \in BOOLEAN
    /\ fKeepEMShowerDaughters \in BOOLEAN
    /\ fFilter \in BOOLEAN
    /\ fparticleList = EmptyMap
    /\ fArchive = EmptyMap
    /\ fParentIDMap = EmptyMap
    /\ fCurrentParticle = [particle |-> NoKey, keep |-> FALSE]
    /\ fCurrentTrackID = NoParticleId
    /\ fTrackIDOffset = 0
    /\ partCol = <<>>
    /\ tpassn = <<>>
    /\ particleList = EmptyMap
    /\ nTruth = 0
    /\ mct = 0
    /\ iPartPair = NoKey
    /\ nGeneratedParticles = 0
    /\ phase = "between"
    /\ trackOpen = FALSE
    /\ nextG4 = 1
    /\ nEvents = 0
    /\ tracks = EmptyMap
    /\ snap = [kind |-> "none"]
    /\ yielded = EmptyMap
    /\ offsetBefore = 0
    /\ lastK = 0
    /\ aborted = FALSE
    /\ lateConsult = FALSE
    /\ strayStep = FALSE

\* ClearedParticle that clears nothing.
ClearedParticleStale == fCurrentParticle

\* fCurrentParticle.clear()
ClearedParticle == [particle |-> NoKey, keep |-> FALSE]

\* fCurrentParticle.hasParticle()
HasParticle == fCurrentParticle.particle # NoKey

----------------------------------------------------------------------------
(* beginOfEventAction.  The engine begins an event when the previous one   *)
(* has been finalized, or after aborting the previous one.                 *)

\* BeginOfEventAction that also resets the track id offset.
BeginOfEventActionResetsOffset ==
    /\ phase \in {"between", "inEvent"}
    /\ nEvents < MaxEvents
    /\ fCurrentParticle' = ClearedParticle
    /\ fparticleList' = EmptyMap
    /\ fArchive' = EmptyMap
    /\ fParentIDMap' = EmptyMap
    /\ fCurrentTrackID' = NoParticleId
    /\ fTrackIDOffset' = 0
    /\ phase' = "inEvent"
    /\ trackOpen' = FALSE
    /\ nextG4' = 1
    /\ nEvents' = nEvents + 1
    /\ tracks' = EmptyMap
    /\ snap' = [kind |-> "none"]
    /\ yielded' = EmptyMap
    /\ offsetBefore' = fTrackIDOffset
    /\ aborted' = /\ phase = "inEvent"
                  /\ fparticleList # EmptyMap
                  /\ fParentIDMap # EmptyMap
                  /\ HasParticle
    /\ strayStep' = FALSE
    /\ UNCHANGED <<config, partCol, tpassn, locals, lastK,
                   lateConsult>>

\* beginOfEventAction: clear what the service holds of the event before.
BeginOfEventAction ==
    /\ phase \in {"between", "inEvent"}
    /\ nEvents < MaxEvents
    /\ fCurrentParticle' = ClearedParticle
    /\ fparticleList' = EmptyMap
    /\ fArchive' = EmptyMap
    /\ fParentIDMap' = EmptyMap
    /\ fCurrentTrackID' = NoParticleId
    /\ phase' = "inEvent"
    /\ trackOpen' = FALSE
    /\ nextG4' = 1
    /\ nEvents' = nEvents + 1
    /\ tracks' = EmptyMap
    /\ snap' = [kind |-> "none"]
    /\ yielded' = EmptyMap
    /\ offsetBefore' = fTrackIDOffset
    /\ aborted' = /\ phase = "inEvent"
                  /\ fparticleList # EmptyMap
                  /\ fParentIDMap # EmptyMap
                  /\ HasParticle
    /\ strayStep' = FALSE
    /\ UNCHANGED <<config, fTrackIDOffset, partCol, tpassn, locals, lastK,
                   lateConsult>>

----------------------------------------------------------------------------
(* preUserTrackingAction.                                                  *)

\* ParticleList::Add(particle): insert under the particle's track id.
Add(list, particle) == MapPut(list, Abs(particle.trackId), particle)

\* DropsEMShower without the test of fKeepEMShowerDaughters.
DropsEMShowerIgnoresFlag(creator) == IsEMShowerProcess(creator)

\* The test of the EM-shower branch.
DropsEMShower(creator) ==
    ~fKeepEMShowerDaughters /\ IsEMShowerProcess(creator)

\* DropsBelowCut with the comparison turned round.
DropsAboveCut(energy) == fenergyCut < energy

\* The test of the energy-cut branch.
DropsBelowCut(energy) == energy < fenergyCut

\* EffectiveParent without the fall back to the raw parent: the resolved
\* id is used whether it is a known particle or not.
EffectiveParentResolved(list, map, parentID) ==
    IF KnownParticle(list, parentID) THEN parentID
    ELSE GetParentage(map, parentID)

\* EffectiveParent without the walk up fParentIDMap.
EffectiveParentRaw(list, map, parentID) == parentID

\* The parent id of an admitted secondary: the raw parent when it is a
\* known particle, else the resolved ancestor when that one is known, else
\* the raw parent.  map is fParentIDMap after the track was entered in it.
EffectiveParent(list, map, parentID) ==
    IF KnownParticle(list, parentID) THEN parentID
    ELSE LET pid == GetParentage(map, parentID)
         IN  IF KnownParticle(list, pid) THEN pid ELSE parentID

\* fCurrentTrackID after the EM-shower branch dropped the track.
DroppedEMTrackID(list, map, trackID) ==
    LET id == -1 * GetParentage(map, trackID)
    IN  IF KnownParticle(list, id) THEN id ELSE NoParticleId

\* fCurrentTrackID after the energy-cut branch dropped the track.
DroppedCutTrackID(list, map, trackID) == -1 * GetParentage(map, trackID)

\* The tail of the callback: create the particle and add it to the list.
Admit(trackID, process_name, parentID, map) ==
    /\ fCurrentParticle' = [particle |-> trackID, keep |-> ~fFilter]
    /\ fparticleList' =
           Add(fparticleList, NewParticle(trackID, process_name, parentID))
    /\ fCurrentTrackID' = trackID
    /\ fParentIDMap' = map

\* The early return of a dropped track.
Drop(currentTrackID, map) ==
    /\ fCurrentParticle' = ClearedParticle
    /\ fCurrentTrackID' = currentTrackID
    /\ fParentIDMap' = map
    /\ UNCHANGED fparticleList

\* PrimaryInfo without the assignment parentID = 0.
PrimaryInfoKeepsParent(parentID) ==
    [process_name |-> "primary", parentID |-> parentID]

\* What the callback makes of a track that carries PrimaryParticleInformation:
\* the process name is "primary" and the parent id is 0.
PrimaryInfo(parentID) == [process_name |-> "primary", parentID |-> 0]

\* History: whether the track is one the filter is meant to drop, a
\* secondary made by an EM-shower process while these are not kept, or a
\* secondary below the energy cut.
IsDroppedTrack(kind, creator, energy) ==
    /\ kind = "secondary"
    /\ \/ ~fKeepEMShowerDaughters /\ IsEMShowerProcess(creator)
       \/ energy < fenergyCut

\* History: the parent id on the record the callback added for the track,
\* NoParticleId when it added none.
AdmittedMother(list, trackID) ==
    IF KnownParticle(list, trackID) THEN list[trackID].mother
    ELSE NoParticleId

\* History: no position, of a track that has not taken a step.
NoPosition == -1

PreUserTrackingAction(kind, g4parent, creator, energy) ==
    LET trackID  == nextG4 + fTrackIDOffset
        parentID == g4parent + fTrackIDOffset
        mapped   == MapPut(fParentIDMap, trackID, parentID)
    IN
    /\ phase = "inEvent"
    /\ ~trackOpen
    /\ nextG4 <= MaxTrack
    /\ CASE kind = "primary" ->
                Admit(trackID, PrimaryInfo(parentID).process_name,
                      PrimaryInfo(parentID).parentID, fParentIDMap)
         [] kind = "primaryNoInfo" ->
                Admit(trackID, "unknown", parentID, fParentIDMap)
         [] kind = "secondary" /\ DropsEMShower(creator) ->
                Drop(DroppedEMTrackID(fparticleList, mapped, trackID), mapped)
         [] kind = "secondary" /\ ~DropsEMShower(creator)
                               /\ DropsBelowCut(energy) ->
                Drop(DroppedCutTrackID(fparticleList, mapped, trackID), mapped)
         [] OTHER ->
                IF KnownParticle(fparticleList, parentID)
                THEN Admit(trackID, creator, parentID, fParentIDMap)
                ELSE Admit(trackID, creator,
                           EffectiveParent(fparticleList, mapped, parentID),
                           mapped)
    /\ trackOpen' = TRUE
    /\ nextG4' = nextG4 + 1
    /\ tracks' = MapPut(tracks, trackID,
                        [kind      |-> kind,
                         rawParent |-> parentID,
                         dropped   |-> IsDroppedTrack(kind, creator, energy),
                         mother    |-> AdmittedMother(fparticleList', trackID),
                         archived  |-> FALSE])
    /\ snap' = [kind |-> kind, g4id |-> nextG4, g4parent |-> g4parent,
                creator |-> creator, energy |-> energy,
                firstPre |-> NoPosition, physical |-> FALSE]
    /\ strayStep' = FALSE
    /\ UNCHANGED <<config, fArchive, fTrackIDOffset, partCol, tpassn, locals,
                   phase, nEvents, yielded, offsetBefore, lastK, aborted,
                   lateConsult>>

\* The engine enters tracks in the order of their ids; a primary has Geant4
\* parent 0 and no creator process, a secondary has an earlier track of the
\* event as its parent.
PreTrack ==
    \E kind \in TrackKinds, energy \in Energies :
        \/ /\ kind # "secondary"
           /\ PreUserTrackingAction(kind, 0, "", energy)
        \/ /\ kind = "secondary"
           /\ \E g4parent \in 1..(nextG4 - 1), creator \in CreatorProcesses :
                  PreUserTrackingAction(kind, g4parent, creator, energy)

----------------------------------------------------------------------------
(* userSteppingAction.                                                     *)

\* fFilter->mustKeep(pos)
MustKeep(pos) == pos \in KeepRegion

\* Consults without the test of keep: the filter is asked at every point.
ConsultsAlways(cur) == TRUE

\* Whether AddPointToCurrentParticle asks the filter: only while nothing
\* has decided to keep the particle.
Consults(cur) == ~cur.keep

\* AddPointToCurrentParticle on a pair [p: particle, keep: BOOLEAN]: append
\* the point and, while undecided, ask the filter.  keep is false only
\* when a filter is configured.
AddPoint(cur, pos, process) ==
    [p    |-> [cur.p EXCEPT !.trajectory =
                   Append(@, [pos |-> pos, process |-> process])],
     keep |-> IF Consults(cur) THEN MustKeep(pos) ELSE cur.keep]

\* Stepped without the test of fstoreTrajectories.
SteppedAlwaysStores(cur, prePos, postPos, process) ==
    LET started == IF Len(cur.p.trajectory) = 0
                   THEN AddPoint(cur, prePos, "Start")
                   ELSE cur
    IN  IF ~IgnoreProcess(process)
        THEN AddPoint(started, postPos, process)
        ELSE started

\* The current particle after one step: the start point before the first
\* point, then the post-step point unless it is not stored.
Stepped(cur, prePos, postPos, process) ==
    LET started == IF Len(cur.p.trajectory) = 0
                   THEN AddPoint(cur, prePos, "Start")
                   ELSE cur
    IN  IF fstoreTrajectories /\ ~IgnoreProcess(process)
        THEN AddPoint(started, postPos, process)
        ELSE started

\* The trajectory points held by the live particles of a list.
RECURSIVE PointsIn(_, _)
PointsIn(list, keys) ==
    IF keys = {} THEN 0
    ELSE LET k == CHOOSE x \in keys : TRUE
         IN  (IF list[k] = NullPtr THEN 0 ELSE Len(list[k].trajectory))
             + PointsIn(list, keys \ {k})

\* History: one of the step's calls of AddPointToCurrentParticle asked the
\* filter about a particle that was already to be kept.
AsksWhileKept(cur, prePos, process) ==
    LET first   == Len(cur.p.trajectory) = 0
        started == IF first THEN AddPoint(cur, prePos, "Start") ELSE cur
    IN  \/ first /\ cur.keep /\ Consults(cur)
        \/ /\ fstoreTrajectories /\ ~IgnoreProcess(process)
           /\ started.keep /\ Consults(started)

\* UserSteppingAction without the test of hasParticle: the step reads the
\* particle the empty slot points to.
UserSteppingActionNoGuard(prePos, postPos, process) ==
    /\ phase = "inEvent"
    /\ strayStep' = ~HasParticle
    /\ IF ~HasParticle
       THEN /\ phase' = "segfault"
            /\ UNCHANGED <<fparticleList, fCurrentParticle, snap,
                           lateConsult>>
       ELSE LET key == fCurrentParticle.particle
                cur == [p |-> fparticleList[key],
                        keep |-> fCurrentParticle.keep]
                new == Stepped(cur, prePos, postPos, process)
            IN  /\ fparticleList' = [fparticleList EXCEPT ![key] = new.p]
                /\ PointsIn(fparticleList', DOMAIN fparticleList') <= MaxPoints
                /\ fCurrentParticle' = [fCurrentParticle EXCEPT
                                            !.keep = new.keep]
                /\ lateConsult' =
                       (lateConsult \/ AsksWhileKept(cur, prePos, process))
                /\ phase' = phase
                /\ snap' = IF snap.kind = "none" THEN snap
                           ELSE [snap EXCEPT
                                    !.firstPre = IF @ = NoPosition
                                                 THEN prePos ELSE @,
                                    !.physical =
                                        (@ \/ ~IgnoreProcess(process))]
    /\ UNCHANGED <<config, fArchive, fParentIDMap, fCurrentTrackID,
                   fTrackIDOffset, partCol, tpassn, locals,
                   trackOpen, nextG4, nEvents,
                   tracks, yielded, offsetBefore, lastK, aborted>>

\* userSteppingAction: a step of the track in the slot.
UserSteppingAction(prePos, postPos, process) ==
    /\ phase = "inEvent"
    /\ strayStep' = ~HasParticle
    /\ IF ~HasParticle
       THEN UNCHANGED <<fparticleList, fCurrentParticle, snap, lateConsult>>
       ELSE LET key == fCurrentParticle.particle
                cur == [p |-> fparticleList[key],
                        keep |-> fCurrentParticle.keep]
                new == Stepped(cur, prePos, postPos, process)
            IN  /\ fparticleList' = [fparticleList EXCEPT ![key] = new.p]
                /\ PointsIn(fparticleList', DOMAIN fparticleList') <= MaxPoints
                /\ fCurrentParticle' = [fCurrentParticle EXCEPT
                                            !.keep = new.keep]
                /\ lateConsult' =
                       (lateConsult \/ AsksWhileKept(cur, prePos, process))
                /\ snap' = IF snap.kind = "none" THEN snap
                           ELSE [snap EXCEPT
                                    !.firstPre = IF @ = NoPosition
                                                 THEN prePos ELSE @,
                                    !.physical =
                                        (@ \/ ~IgnoreProcess(process))]
    /\ UNCHANGED <<config, fArchive, fParentIDMap, fCurrentTrackID,
                   fTrackIDOffset, partCol, tpassn, locals, engine,
                   tracks, yielded, offsetBefore, lastK, aborted>>

Step ==
    \E prePos \in Positions, postPos \in Positions, process \in StepProcesses :
        UserSteppingAction(prePos, postPos, process)

----------------------------------------------------------------------------
(* postUserTrackingAction.                                                 *)

\* Processes that end a track.
EndProcesses == {"Decay"}

\* ParticleList::Archive(particle): remember the mother, delete the
\* particle, leave a null pointer under its key.
ArchivedList(list, key) == [list EXCEPT ![key] = NullPtr]
ArchivedInfo(list, archive, key) == MapPut(archive, key, list[key].mother)

\* ExitDecision without the test of keep: nothing is archived.
ExitDecisionNeverArchives(cur) ==
    IF cur.particle = NoKey THEN "none" ELSE "finish"

\* What the callback does to the current particle: "none" without one,
\* "archive" when nothing decided to keep it, else "finish".
ExitDecision(cur) ==
    IF cur.particle = NoKey THEN "none"
    ELSE IF ~cur.keep THEN "archive"
    ELSE "finish"

PostUserTrackingAction(weight, process) ==
    LET key == fCurrentParticle.particle
        decision == ExitDecision(fCurrentParticle)
    IN
    /\ phase = "inEvent"
    /\ CASE decision = "none" ->
                UNCHANGED <<fparticleList, fArchive, fCurrentParticle>>
         [] decision = "archive" ->
                /\ fparticleList' = ArchivedList(fparticleList, key)
                /\ fArchive' = ArchivedInfo(fparticleList, fArchive, key)
                /\ fCurrentParticle' = ClearedParticle
         [] OTHER ->
                /\ fparticleList' = [fparticleList EXCEPT
                                         ![key].weight = weight,
                                         ![key].endProcess = process]
                /\ UNCHANGED <<fArchive, fCurrentParticle>>
    /\ trackOpen' = FALSE
    /\ snap' = [kind |-> "none"]
    /\ tracks' = IF HasParticle /\ ~fCurrentParticle.keep
                 THEN [tracks EXCEPT ![key].archived = TRUE]
                 ELSE tracks
    /\ strayStep' = FALSE
    /\ UNCHANGED <<config, fParentIDMap, fCurrentTrackID, fTrackIDOffset,
                   partCol, tpassn, locals, phase, nextG4, nEvents,
                   yielded, offsetBefore, lastK, aborted, lateConsult>>

PostTrack ==
    \E weight \in Weights, process \in EndProcesses :
        PostUserTrackingAction(weight, process)

----------------------------------------------------------------------------
(* endOfEventAction.                                                       *)

\* UpdateDaughterInformation that adds the parent's id, not the particle's,
\* to the parent's daughters.
UpdateDaughterInformationParent(list, archive, particleID) ==
    LET parentID == GetMotherOf(list, archive, particleID)
    IN  IF parentID <= 0 THEN list
        ELSE IF ~HasEntry(list, parentID) THEN list
        ELSE IF list[parentID] = NullPtr THEN list
        ELSE [list EXCEPT ![parentID].daughters = @ \cup {parentID}]

\* UpdateDaughterInformation with the primary test turned round
\* (parentID >= 0 for parentID <= 0).
UpdateDaughterInformationGE(list, archive, particleID) ==
    LET parentID == GetMotherOf(list, archive, particleID)
    IN  IF parentID >= 0 THEN list
        ELSE IF ~HasEntry(list, parentID) THEN list
        ELSE IF list[Abs(parentID)] = NullPtr THEN list
        ELSE [list EXCEPT ![Abs(parentID)].daughters = @ \cup {particleID}]

\* UpdateDaughterInformation::operator() on the entry under particleID.
UpdateDaughterInformation(list, archive, particleID) ==
    LET parentID == GetMotherOf(list, archive, particleID)
    IN  IF parentID <= 0 THEN list
        ELSE IF ~HasEntry(list, parentID) THEN list
        ELSE IF list[parentID] = NullPtr THEN list
        ELSE [list EXCEPT ![parentID].daughters = @ \cup {particleID}]

\* std::for_each over the entries, in key order.
RECURSIVE ForEachEntry(_, _, _)
ForEachEntry(list, archive, keys) ==
    IF keys = <<>> THEN list
    ELSE ForEachEntry(UpdateDaughterInformation(list, archive, Head(keys)),
                      archive, Tail(keys))

UpdateDaughters(list, archive) ==
    ForEachEntry(list, archive, SortedSeq(DOMAIN list))

\* YieldOffset without the + 1.
YieldOffsetHighest(list, offset) ==
    LET highestID == IF DOMAIN list = {} THEN 0
                     ELSE SetMax(DOMAIN list \cup {0})
    IN  IF Cardinality(DOMAIN list) # 0 THEN highestID ELSE offset

\* YieldList: the offset it leaves.  highestID starts at 0.
YieldOffset(list, offset) ==
    LET highestID == IF DOMAIN list = {} THEN 0
                     ELSE SetMax(DOMAIN list \cup {0})
    IN  IF Cardinality(DOMAIN list) # 0 THEN highestID + 1 ELSE offset

\* The head of the callback, up to the loops: link the daughters, yield the
\* list into the local, start the loop over the n truth records.
EndOfEventAction(n) ==
    LET linked == UpdateDaughters(fparticleList, fArchive)
    IN
    /\ phase = "inEvent"
    /\ ~trackOpen
    /\ partCol' = <<>>
    /\ tpassn' = <<>>
    /\ fTrackIDOffset' = YieldOffset(linked, fTrackIDOffset)
    /\ particleList' = linked
    /\ fparticleList' = EmptyMap
    /\ fArchive' = EmptyMap
    /\ nTruth' = n
    /\ mct' = 1
    /\ iPartPair' = NoKey
    /\ nGeneratedParticles' = 0
    /\ phase' = "forTruth"
    /\ yielded' = linked
    /\ offsetBefore' = fTrackIDOffset
    /\ lastK' = IF DOMAIN linked = {} THEN lastK ELSE SetMax(DOMAIN linked)
    /\ strayStep' = FALSE
    /\ UNCHANGED <<config, fParentIDMap, fCurrentParticle, fCurrentTrackID,
                   trackOpen, nextG4, nEvents, tracks, snap, aborted,
                   lateConsult>>

EndOfEvent == \E n \in 0..MaxTruth : EndOfEventAction(n)

\* The loop over the truth records: the test succeeds, the body starts.
ForTruthBody ==
    /\ phase = "forTruth"
    /\ mct <= nTruth
    /\ nGeneratedParticles' = 0
    /\ iPartPair' = Begin(particleList)
    /\ phase' = "whileParticles"
    /\ UNCHANGED <<config, service, particleList, nTruth, mct,
                   trackOpen, nextG4, nEvents, history>>

\* The value of a moved-from std::string: valid but unspecified.
MovedFromString == "(unspecified)"

\* A moved-from MCParticle: the numbers stay, the containers are empty, the
\* strings are unspecified.
MovedFrom(p) ==
    [p EXCEPT !.trajectory = <<>>,
              !.daughters = {},
              !.process = MovedFromString,
              !.endProcess = MovedFromString]

\* The iterator after one pass of the loop over the particles.
NextPartPair(list, it) == it

\* The body of the loop over the particles.  It reads the particle the
\* entry points to; the pointer of an archived entry is null and the read,
\* a load from the null page, faults: the callback does not return.
\* push_back throws std::bad_alloc when the vector cannot grow.
WhileParticlesBody ==
    /\ phase = "whileParticles"
    /\ iPartPair # NoKey
    /\ IF particleList[iPartPair] = NullPtr
       THEN /\ phase' = "segfault"
            /\ UNCHANGED <<partCol, tpassn, particleList,
                           nGeneratedParticles, iPartPair>>
       ELSE IF Len(partCol) >= MaxPartCol
       THEN /\ phase' = "bad_alloc"
            /\ nGeneratedParticles' = nGeneratedParticles + 1
            /\ UNCHANGED <<partCol, tpassn, particleList, iPartPair>>
       ELSE /\ nGeneratedParticles' = nGeneratedParticles + 1
            /\ partCol' = Append(partCol, particleList[iPartPair])
            /\ particleList' =
                   [particleList EXCEPT ![iPartPair] = MovedFrom(@)]
            /\ tpassn' = Append(tpassn,
                                [truth |-> mct, index |-> Len(partCol')  - 1])
            /\ iPartPair' = NextPartPair(particleList, iPartPair)
            /\ UNCHANGED phase
    /\ UNCHANGED <<config, fparticleList, fArchive, fParentIDMap,
                   fCurrentParticle, fCurrentTrackID, fTrackIDOffset,
                   nTruth, mct, trackOpen, nextG4, nEvents, history>>

\* The loop over the particles ends: on to the next truth record.
WhileParticlesExit ==
    /\ phase = "whileParticles"
    /\ iPartPair = NoKey
    /\ mct' = mct + 1
    /\ phase' = "forTruth"
    /\ UNCHANGED <<config, service, particleList, nTruth, iPartPair,
                   nGeneratedParticles, trackOpen, nextG4, nEvents, history>>

\* The loop over the truth records ends: fillEventWithArtStuff, the local
\* list is destroyed, the callback returns.
EndOfEventReturn ==
    /\ phase = "forTruth"
    /\ mct > nTruth
    /\ particleList' = EmptyMap
    /\ nTruth' = 0
    /\ mct' = 0
    /\ iPartPair' = NoKey
    /\ nGeneratedParticles' = 0
    /\ phase' = "between"
    /\ UNCHANGED <<config, service, trackOpen, nextG4, nEvents, history>>

----------------------------------------------------------------------------
Next ==
    \/ BeginOfEventAction
    \/ PreTrack
    \/ Step
    \/ PostTrack
    \/ EndOfEvent
    \/ ForTruthBody
    \/ WhileParticlesBody
    \/ WhileParticlesExit
    \/ EndOfEventReturn

Spec == Init /\ [][Next]_vars

----------------------------------------------------------------------------
(* Properties.                                                             *)

\* The keys of the live (not archived) entries of a list.
LiveKeys(list) == {k \in DOMAIN list : list[k] # NullPtr}

\* The keys of the archived entries of a list.
ArchivedKeys(list) == {k \in DOMAIN list : list[k] = NullPtr}

\* The track ids of the output, in output order.
PartColIds == [i \in 1..Len(partCol) |-> partCol[i].trackId]

\* endOfEventAction has left its loops: the output is final.
LoopsDone == phase = "forTruth" /\ mct > nTruth

\* C1: onEndEvent always terminates: whatever the list holds and however
\* many truth records are supplied, the call completes after finitely many
\* steps.  Every step of the callback is enabled until it returns, so it
\* completes unless the loop over the particles keeps running; stated as
\* the loop's bound: it makes at most one pass per entry of the list, and
\* so never exhausts the output vector.
C1_EndOfEventTerminates ==
    /\ nGeneratedParticles <= Cardinality(DOMAIN particleList)
    /\ phase # "bad_alloc"

\* C2: the particle sequence onEndEvent returns holds exactly one record
\* for each live entry of the yielded list, in ascending track id order,
\* whatever the number of truth records.
C2_OutputIsLiveEntries ==
    LoopsDone => PartColIds = SortedSeq(LiveKeys(yielded))

\* C3: the track ids of the emitted records are unique: no two records of
\* one output share one, and every one is above the offset the event
\* started with, which is above every id of the earlier events.
C3_UniqueTrackIds ==
    /\ \A i, j \in 1..Len(partCol) :
           i # j => partCol[i].trackId # partCol[j].trackId
    /\ \A i \in 1..Len(partCol) : partCol[i].trackId > offsetBefore

\* The associations of truth record t with the particle of track id.
AssociationsOf(t, id) ==
    {i \in 1..Len(tpassn) :
        /\ tpassn[i].truth = t
        /\ tpassn[i].index + 1 \in 1..Len(partCol)
        /\ partCol[tpassn[i].index + 1].trackId = id}

\* C4: the association table pairs every truth record with every drained
\* particle exactly once: every index is a position of the output, no
\* truth record is associated twice with one particle, and when the loops
\* are done every truth record is associated with every live particle.
C4_AssociationFanOut ==
    /\ \A i \in 1..Len(tpassn) : tpassn[i].index \in 0..(Len(partCol) - 1)
    /\ \A t \in 1..MaxTruth, id \in LiveKeys(yielded) :
           Cardinality(AssociationsOf(t, id)) <= 1
    /\ LoopsDone =>
           \A t \in 1..nTruth, id \in LiveKeys(yielded) :
               Cardinality(AssociationsOf(t, id)) = 1

\* The nearest track on the raw parent chain from id upwards that is a
\* known particle of the list, NoKey when the chain leaves the event's
\* tracks before one is found.
RECURSIVE NearestKept(_)
NearestKept(id) ==
    IF id \notin DOMAIN tracks THEN NoKey
    ELSE IF KnownParticle(fparticleList, id) THEN id
    ELSE NearestKept(tracks[id].rawParent)

\* The track is one of the event and was dropped.
IsDroppedId(id) == id \in DOMAIN tracks /\ tracks[id].dropped

\* C5 as claimed: an admitted secondary whose raw parent is a dropped track
\* has as its parent id the nearest ancestor on the raw parent chain that
\* is a known particle, never a dropped track.
C5_ParentIsNearestKeptAncestor ==
    phase = "inEvent" =>
        \A k \in LiveKeys(fparticleList) :
            (tracks[k].kind = "secondary" /\ IsDroppedId(tracks[k].rawParent))
            => /\ ~IsDroppedId(fparticleList[k].mother)
               /\ NearestKept(tracks[k].rawParent) # NoKey
                  => fparticleList[k].mother = NearestKept(tracks[k].rawParent)

\* C5 as amended: an admitted secondary whose raw parent is a dropped track
\* has as its parent id the id GetParentage resolves the raw parent to (the
\* first id on the chain through fParentIDMap that is not a key of it) when
\* that id is a known particle, and the raw parent id itself otherwise.
C5_ParentIsResolvedAncestor ==
    phase = "inEvent" =>
        \A k \in LiveKeys(fparticleList) :
            (tracks[k].kind = "secondary" /\ IsDroppedId(tracks[k].rawParent))
            => LET raw == tracks[k].rawParent
                   pid == GetParentage(fParentIDMap, raw)
               IN  fparticleList[k].mother =
                       IF KnownParticle(fparticleList, pid) THEN pid ELSE raw

\* C5 happens: an admitted secondary with a dropped raw parent was given a
\* known ancestor as its parent.
C5_Witness ==
    /\ phase = "inEvent"
    /\ \E k \in LiveKeys(fparticleList) :
           /\ tracks[k].kind = "secondary"
           /\ IsDroppedId(tracks[k].rawParent)
           /\ fparticleList[k].mother # tracks[k].rawParent
           /\ KnownParticle(fparticleList, fparticleList[k].mother)

\* C6: a dropped track never has an entry in the particle list, neither
\* before nor after the list is yielded, and no record of the output has
\* its track id.
C6_DroppedNeverRecorded ==
    \A id \in DOMAIN tracks :
        tracks[id].dropped
        => /\ ~HasEntry(fparticleList, id)
           /\ ~HasEntry(particleList, id)
           /\ ~HasEntry(yielded, id)
           /\ \A i \in 1..Len(partCol) : partCol[i].trackId # id

\* C6 happens: the event dropped a track and endOfEventAction has emitted
\* a record.
C6_Witness ==
    /\ \E id \in DOMAIN tracks : tracks[id].dropped
    /\ Len(partCol) > 0

\* C7: an archived track is never emitted and finalization never reads the
\* released particle of an archived entry.
C7_ArchivedNeverRead ==
    /\ phase # "segfault"
    /\ \A id \in ArchivedKeys(yielded) :
           \A i \in 1..Len(partCol) : partCol[i].trackId # id

\* C8: once the daughters are linked, every live particle whose parent id
\* is the id of a live particle is among that particle's daughters, and a
\* live particle whose parent is absent or archived is among nobody's.
C8_DaughtersLinked ==
    /\ \A p \in LiveKeys(yielded), m \in LiveKeys(yielded) :
           yielded[p].mother = m => p \in yielded[m].daughters
    /\ \A p \in LiveKeys(yielded) :
           yielded[p].mother \notin LiveKeys(yielded)
           => \A m \in LiveKeys(yielded) : p \notin yielded[m].daughters

\* C8 happens: the yielded list holds a live particle with a live parent
\* and a live particle whose parent is archived.
C8_Witness ==
    /\ \E p \in LiveKeys(yielded) : yielded[p].mother \in LiveKeys(yielded)
    /\ \E p \in LiveKeys(yielded) : yielded[p].mother \in ArchivedKeys(yielded)

\* C8 happens for an orphan: the yielded list holds a live particle with a
\* live parent and a live particle whose parent has no entry.
C8_WitnessOrphan ==
    /\ \E p \in LiveKeys(yielded) : yielded[p].mother \in LiveKeys(yielded)
    /\ \E p \in LiveKeys(yielded) :
           yielded[p].mother > 0 /\ yielded[p].mother \notin DOMAIN yielded

\* C9: after endOfEventAction on a non-empty list with highest key K the
\* offset is K + 1, after one on an empty list the offset is what it was,
\* and every track of the next event has an id above K.
C9_OffsetAfterEvent ==
    /\ phase # "inEvent"
       => /\ DOMAIN yielded # {}
             => fTrackIDOffset = SetMax(DOMAIN yielded) + 1
          /\ DOMAIN yielded = {} => fTrackIDOffset = offsetBefore
    /\ phase = "inEvent" => \A id \in DOMAIN tracks : id > lastK

\* C9 happens: an event after one that yielded a non-empty list has
\* entered a track.
C9_Witness ==
    /\ phase = "inEvent"
    /\ lastK > 0
    /\ DOMAIN tracks # {}

\* C10: a primary is always admitted, with parent id 0 and process name
\* "primary", whatever its raw parent id, its energy and the configuration.
C10_PrimaryAlwaysAdmitted ==
    phase = "inEvent" =>
        /\ \A id \in DOMAIN tracks :
               tracks[id].kind = "primary"
               => /\ HasEntry(fparticleList, id)
                  /\ GetMotherOf(fparticleList, fArchive, id) = 0
                  /\ KnownParticle(fparticleList, id)
                     => fparticleList[id].process = "primary"
        /\ snap.kind = "primary"
           => /\ fCurrentParticle.particle = snap.g4id + fTrackIDOffset
              /\ KnownParticle(fparticleList, fCurrentParticle.particle)

\* C10 happens: a primary below the energy cut, with a raw parent id other
\* than 0, was admitted while EM-shower daughters are not kept.
C10_Witness ==
    /\ phase = "inEvent"
    /\ snap.kind = "primary"
    /\ snap.energy < fenergyCut
    /\ ~fKeepEMShowerDaughters
    /\ tracks[snap.g4id + fTrackIDOffset].rawParent # 0
    /\ KnownParticle(fparticleList, snap.g4id + fTrackIDOffset)

\* C11: a particle archived at the exit of its track is not a known
\* particle for the rest of the event, while GetMotherOf still returns the
\* parent id its record was created with; for a particle that is not
\* archived GetMotherOf returns the parent id stored on its record.
C11_ArchivedKeepsMother ==
    phase = "inEvent" =>
        \A id \in DOMAIN tracks :
            /\ tracks[id].archived
               => /\ ~KnownParticle(fparticleList, id)
                  /\ GetMotherOf(fparticleList, fArchive, id)
                         = tracks[id].mother
            /\ KnownParticle(fparticleList, id)
               => /\ GetMotherOf(fparticleList, fArchive, id)
                         = fparticleList[id].mother
                  /\ fparticleList[id].mother = tracks[id].mother

\* C11 happens: a secondary with a parent id above 0 was archived and a
\* later track of the event was admitted and is a known particle.
C11_Witness ==
    /\ phase = "inEvent"
    /\ \E id \in DOMAIN tracks, later \in DOMAIN tracks :
           /\ tracks[id].archived
           /\ tracks[id].mother > 0
           /\ later > id
           /\ KnownParticle(fparticleList, later)

\* The track id of the track between its entry and its exit.
SnapTrackID == snap.g4id + fTrackIDOffset

C13_UnfilteredAlwaysEmitted ==
    ~fFilter =>
        /\ HasParticle => fCurrentParticle.keep
        /\ \A id \in DOMAIN tracks : ~tracks[id].archived
        /\ ArchivedKeys(fparticleList) = {}
        /\ ArchivedKeys(yielded) = {}
        /\ (LoopsDone \/ phase = "between")
           => \A id \in DOMAIN tracks :
                  ~tracks[id].dropped
                  => \E i \in 1..Len(partCol) : partCol[i].trackId = id

\* C14: beginOfEventAction empties the particle list, empties the parent
\* map, clears the slot and resets the current track id to NoParticleId,
\* and leaves the track id offset as it was, also when the event before
\* was aborted: until the event enters its first track the service holds
\* nothing of an earlier event but the offset.
C14_BeginClearsEvent ==
    (phase = "inEvent" /\ DOMAIN tracks = {}) =>
        /\ fparticleList = EmptyMap
        /\ fArchive = EmptyMap
        /\ fParentIDMap = EmptyMap
        /\ ~HasParticle
        /\ ~fCurrentParticle.keep
        /\ fCurrentTrackID = NoParticleId
        /\ fTrackIDOffset = offsetBefore

\* C14 happens: an event has begun after one that was aborted with a
\* non-empty list, a non-empty parent map and a particle in the slot.
C14_Witness ==
    /\ phase = "inEvent"
    /\ DOMAIN tracks = {}
    /\ aborted
    /\ nEvents = 2

\* C15: once postUserTrackingAction has returned, and until the next track
\* is entered, the slot holds no particle, whether the track was kept or
\* archived, so that a step or an exit arriving between two tracks finds
\* no particle to modify.
C15_SlotEmptyAfterExit ==
    (phase = "inEvent" /\ ~trackOpen) => ~HasParticle

\* C16: after preUserTrackingAction dropped a track, by the EM-shower test
\* or by the energy cut alike, the parent map holds the track with its raw
\* parent id, the slot is empty, and the current track id is the negative
\* of the ancestor GetParentage resolves the track to when that ancestor is
\* a known particle, and NoParticleId when it is not.
C16_DroppedBookkeeping ==
    (phase = "inEvent" /\ snap.kind = "secondary"
       /\ tracks[SnapTrackID].dropped)
    => /\ SnapTrackID \in DOMAIN fParentIDMap
       /\ fParentIDMap[SnapTrackID] = tracks[SnapTrackID].rawParent
       /\ ~HasParticle
       /\ LET ancestor == GetParentage(fParentIDMap, SnapTrackID)
          IN  fCurrentTrackID =
                  IF KnownParticle(fparticleList, ancestor)
                  THEN -1 * ancestor
                  ELSE NoParticleId

C17_WitnessOrder ==
    /\ phase = "inEvent"
    /\ snap.kind = "secondary"
    /\ ~fKeepEMShowerDaughters
    /\ IsEMShowerProcess(snap.creator)
    /\ snap.energy < fenergyCut
    /\ ~KnownParticle(fparticleList,
                      GetParentage(fParentIDMap, SnapTrackID))

\* The positions of the trajectory points appended to the particle in the
\* slot.
SlotPositions ==
    LET t == fparticleList[fCurrentParticle.particle].trajectory
    IN  {t[i].pos : i \in 1..Len(t)}

\* C18: the keep decision of the track in the slot is monotonic: once keep
\* is true it stays true through every later step of that track, and the
\* filter is not asked again; keep is true if and only if no filter is
\* configured or the filter's mustKeep is true for at least one point
\* appended to the track.
C18_KeepMonotonic ==
    /\ [](/\ ~lateConsult
          /\ (phase = "inEvent" /\ HasParticle)
             => (fCurrentParticle.keep
                 <=> (~fFilter \/ \E pos \in SlotPositions : MustKeep(pos))))
    /\ [][(/\ HasParticle
           /\ fCurrentParticle.keep
           /\ fCurrentParticle'.particle = fCurrentParticle.particle)
          => fCurrentParticle'.keep]_vars

\* C18 happens: with a filter configured the track in the slot is to be
\* kept, and after a point the filter keeps it has been given a later point
\* the filter does not keep.
C18_Witness ==
    /\ phase = "inEvent"
    /\ fFilter
    /\ HasParticle
    /\ fCurrentParticle.keep
    /\ LET t == fparticleList[fCurrentParticle.particle].trajectory
       IN  /\ Len(t) >= 2
           /\ MustKeep(t[1].pos)
           /\ ~MustKeep(t[Len(t)].pos)

RECURSIVE Links(_, _, _)
Links(map, id, fuel) ==
    IF id \notin DOMAIN map THEN 0
    ELSE IF fuel = 0 THEN 1
    ELSE 1 + Links(map, map[id], fuel - 1)

\* The id the walk from id is at after n links.
RECURSIVE Follow(_, _, _)
Follow(map, id, n) ==
    IF n = 0 THEN id ELSE Follow(map, map[id], n - 1)

\* The ids GetParentage can be asked about in the event.
QueryIds == 0..(fTrackIDOffset + MaxTrack)

\* C20: GetParentage terminates on every parent map the service builds:
\* with parents entered before their daughters every entry maps a track id
\* to a smaller id, so the walk from any id follows at most as many links
\* as tracks were entered in the event; it returns the first id on the
\* chain that is not a key of the map, and NoParticleId when the id asked
\* about is not a key itself.
C20_ParentageTerminates ==
    phase = "inEvent" =>
        /\ \A k \in DOMAIN fParentIDMap : fParentIDMap[k] < k
        /\ \A id \in QueryIds :
               LET n == Links(fParentIDMap, id,
                              Cardinality(DOMAIN fParentIDMap))
               IN  /\ n <= Cardinality(DOMAIN tracks)
                   /\ \A m \in 0..(n - 1) :
                          Follow(fParentIDMap, id, m) \in DOMAIN fParentIDMap
                   /\ Follow(fParentIDMap, id, n) \notin DOMAIN fParentIDMap
                   /\ GetParentage(fParentIDMap, id) =
                          IF n = 0 THEN NoParticleId
                          ELSE Follow(fParentIDMap, id, n)

\* C20 happens: in the second event of a run the parent map holds a chain
\* of two links, and the walk along it ends at a known particle.
C20_Witness ==
    /\ phase = "inEvent"
    /\ fTrackIDOffset > 0
    /\ \E id \in DOMAIN fParentIDMap :
           /\ fParentIDMap[id] \in DOMAIN fParentIDMap
           /\ KnownParticle(fparticleList, GetParentage(fParentIDMap, id))

\* C21: a userSteppingAction that finds the slot empty (before any track,
\* after a dropped track, after an archived track) changes nothing: the
\* particle list with every trajectory, the parent map, the slot with its
\* keep flag, the current track id and the offset are as they were, and
\* the event goes on.
C21_StrayStepIsNoOp ==
    [][(strayStep' /\ ~strayStep)
       => /\ ~HasParticle
          /\ UNCHANGED <<fparticleList, fArchive, fParentIDMap,
                         fCurrentParticle, fCurrentTrackID, fTrackIDOffset,
                         phase, trackOpen>>]_vars

\* C21 happens: a step found the slot empty in an event that has archived
\* a track, dropped a track and holds a particle with a trajectory.
C21_Witness ==
    /\ strayStep
    /\ phase = "inEvent"
    /\ ArchivedKeys(fparticleList) # {}
    /\ DOMAIN fParentIDMap # {}
    /\ \E k \in LiveKeys(fparticleList) :
           Len(fparticleList[k].trajectory) > 0

\* C21 happens before any track: a step found the slot empty in an event
\* that has entered no track.
C21_WitnessNoTrack ==
    /\ strayStep
    /\ phase = "inEvent"
    /\ DOMAIN tracks = {}

\* The track between its entry and its exit is an orphan: a secondary that
\* neither the EM-shower test nor the energy cut drops, whose raw parent
\* is no known particle and resolves to no known particle.
SnapIsOrphan ==
    /\ phase = "inEvent"
    /\ snap.kind = "secondary"
    /\ ~(~fKeepEMShowerDaughters /\ IsEMShowerProcess(snap.creator))
    /\ ~(snap.energy < fenergyCut)
    /\ ~KnownParticle(fparticleList, tracks[SnapTrackID].rawParent)
    /\ ~KnownParticle(fparticleList,
                      GetParentage(fParentIDMap,
                                   tracks[SnapTrackID].rawParent))

\* C22: an orphaned parent is not fatal: a secondary that passes the
\* EM-shower test and the energy cut is admitted also when neither its raw
\* parent nor the id the raw parent resolves to is a known particle; its
\* record is in the list with the raw parent id as its parent id, the
\* parent map holds the track with its raw parent id, and the track is the
\* current one of an event that goes on.
C22_OrphanAdmitted ==
    SnapIsOrphan =>
        /\ KnownParticle(fparticleList, SnapTrackID)
        /\ fparticleList[SnapTrackID].mother = tracks[SnapTrackID].rawParent
        /\ tracks[SnapTrackID].mother = tracks[SnapTrackID].rawParent
        /\ SnapTrackID \in DOMAIN fParentIDMap
        /\ fParentIDMap[SnapTrackID] = tracks[SnapTrackID].rawParent
        /\ fCurrentParticle.particle = SnapTrackID
        /\ fCurrentTrackID = SnapTrackID

\* C22 happens: an orphan whose raw parent was dropped and resolves to an
\* archived track was admitted and has taken a step.
C22_Witness ==
    /\ SnapIsOrphan
    /\ IsDroppedId(tracks[SnapTrackID].rawParent)
    /\ GetParentage(fParentIDMap, tracks[SnapTrackID].rawParent)
           \in ArchivedKeys(fparticleList)
    /\ snap.firstPre # NoPosition

\* C23 as claimed: every id in the daughter set of a record of the output
\* is the track id of a particle the event emits, a live entry of the
\* yielded list: never an archived track, never a dropped one.
C23_DaughtersAreEmitted ==
    \A i \in 1..Len(partCol) :
        \A d \in partCol[i].daughters :
            /\ d \in LiveKeys(yielded)
            /\ ~IsDroppedId(d)

\* The parent id of an entry of the yielded list: the one on the record of
\* a live entry, the one the record was created with of an archived entry.
YieldedMother(d) ==
    IF yielded[d] # NullPtr THEN yielded[d].mother ELSE tracks[d].mother

\* C23 as amended: every id in the daughter set of a record of the output,
\* and of a live entry of the yielded list, is the key of an entry of that
\* list, live or archived, whose parent id is the record's track id, and
\* never a dropped track; an archived track is listed as a daughter of its
\* parent when that parent is live.
C23_DaughtersAreEntries ==
    /\ \A i \in 1..Len(partCol) :
           \A d \in partCol[i].daughters :
               /\ d \in DOMAIN yielded
               /\ ~IsDroppedId(d)
               /\ YieldedMother(d) = partCol[i].trackId
    /\ \A m \in LiveKeys(yielded) :
           \A d \in yielded[m].daughters :
               /\ d \in DOMAIN yielded
               /\ ~IsDroppedId(d)
               /\ YieldedMother(d) = m
    /\ \A d \in ArchivedKeys(yielded) :
           YieldedMother(d) \in LiveKeys(yielded)
           => d \in yielded[YieldedMother(d)].daughters

\* C23 happens: a record of the output lists an archived track and a live
\* particle among its daughters.
C23_Witness ==
    \E i \in 1..Len(partCol) :
        /\ partCol[i].daughters \cap ArchivedKeys(yielded) # {}
        /\ partCol[i].daughters \cap LiveKeys(yielded) # {}

====
